---- MODULE Spec2Model ----
(***************************************************************************)
(* The room alias directory of the homeserver (src/api/r0/directory.rs):   *)
(* the GET, PUT and DELETE /directory/room/:room_alias endpoints, the      *)
(* room_aliases table they read and write, and the requests in flight.     *)
(*                                                                         *)
(* Strings are sequences of one-character strings, so that formatting and  *)
(* parsing of identifiers are computed and not assumed.  An Option<T> is a *)
(* sequence of length 0 (None) or 1 (Some).                                *)
(***************************************************************************)
EXTENDS Bags, FiniteSets, Integers, Sequences, TLC

\* The number of requests the server runs handlers for at once.
MaxReq == 2

\* config.domain of the homeserver.
Domain == <<"d">>

\* The users AccessTokenAuth can attach to a request.
Users == {"u1", "u2"}

\* The :room_alias path parameters a client sends: two well-formed localparts,
\* the empty one, and one with a character outside the localpart grammar.
RoomAliasParams == {<<"a">>, <<"b">>, <<>>, <<"a", " ">>}

\* The room_id strings a PUT body carries: a room that exists, a well-formed id
\* of no room, and a string that is no room id.
RoomIdStrings == {<<"!", "r", ":", "d">>, <<"!", "n", ":", "d">>, <<"r">>}

\* The rooms table: the rooms the room-lifecycle service has created.
rooms == {[opaque_id |-> <<"r">>, hostname |-> <<"d">>]}

LocalpartChars == {"a", "b", "r", "n"}
HostChars == {"d"}

(***************************************************************************)
(* Strings                                                                 *)
(***************************************************************************)

\* The index of the first occurrence of c in s, or 0.
RECURSIVE IndexFrom(_, _, _)
IndexFrom(s, c, i) ==
    IF i > Len(s) THEN 0
    ELSE IF s[i] = c THEN i
    ELSE IndexFrom(s, c, i + 1)

AllIn(s, chars) == \A i \in 1..Len(s) : s[i] \in chars

\* format!("#{}:{}", room_alias, domain)
FormatAlias(room_alias, domain) == <<"#">> \o room_alias \o <<":">> \o domain

\* The identifier grammar `<sigil>localpart:hostname`: the localpart runs to
\* the first ':', is not empty and holds only localpart characters; the
\* hostname is a non-empty host name.  None when s is not of that form.
parse_id(sigil, s) ==
    LET delimiter == IndexFrom(s, ":", 2)
        localpart == SubSeq(s, 2, delimiter - 1)
        hostname  == SubSeq(s, delimiter + 1, Len(s))
    IN  IF Len(s) = 0 \/ s[1] # sigil THEN <<>>
        ELSE IF delimiter = 0 THEN <<>>
        ELSE IF localpart = <<>> \/ ~AllIn(localpart, LocalpartChars) THEN <<>>
        ELSE IF hostname = <<>> \/ ~AllIn(hostname, HostChars) THEN <<>>
        ELSE <<[localpart |-> localpart, hostname |-> hostname]>>

\* RoomAliasId::try_from(&str): Some(alias id) or None.
RoomAliasId_try_from(s) == parse_id("#", s)

\* RoomId::try_from(&str): Some(room id) or None.
RoomId_try_from(s) ==
    LET p == parse_id("!", s)
    IN  IF p = <<>> THEN <<>>
        ELSE <<[opaque_id |-> p[1].localpart, hostname |-> p[1].hostname]>>

\* RoomId's Display: room_id.to_string()
RoomId_to_string(room_id) ==
    <<"!">> \o room_id.opaque_id \o <<":">> \o room_id.hostname

(***************************************************************************)
(* Responses.  `detail` is the value a message interpolates; room_id and   *)
(* servers are the body of a successful GET.                               *)
(***************************************************************************)

Response(status, errcode, message, detail) ==
    [status |-> status, errcode |-> errcode, message |-> message,
     detail |-> detail, room_id |-> <<>>, servers |-> <<>>]

ApiError_not_found(message, detail) ==
    Response(404, "M_NOT_FOUND", message, detail)

ApiError_missing_param(param) ==
    Response(400, "M_MISSING_PARAM", param, <<>>)

ApiError_bad_json ==
    Response(400, "M_BAD_JSON", "", <<>>)

ApiError_alias_taken ==
    Response(409, "IO_RUMA_ALIAS_TAKEN", "", <<>>)

\* The room of a new alias does not resolve: an unprocessable request.
ApiError_room_not_found ==
    Response(422, "M_UNKNOWN", "", <<>>)

\* The panic of `.expect("AccessTokenAuth should ensure a user")` on a request
\* with no user, as the server answers it.
Panic ==
    Response(500, "", "AccessTokenAuth should ensure a user", <<>>)

Ok(v) == [ok |-> <<v>>, err |-> <<>>]
Err(e) == [ok |-> <<>>, err |-> <<e>>]

(***************************************************************************)
(* The room_aliases table (module room_alias): a sequence of rows          *)
(* [alias, room_id, user_id, servers] in insertion order.                  *)
(***************************************************************************)

RowsFor(rows, alias) == SelectSeq(rows, LAMBDA row : row.alias = alias)

RowsNotFor(rows, alias) == SelectSeq(rows, LAMBDA row : row.alias # alias)

\* RoomAlias::find_by_alias: the row of the alias, or not_found.
RoomAlias_find_by_alias(rows, alias) ==
    IF RowsFor(rows, alias) = <<>>
    THEN Err(ApiError_not_found("Room alias not found", <<>>))
    ELSE Ok(RowsFor(rows, alias)[1])

\* RoomAlias::create: insert-if-absent, in one statement.  The room must be a
\* room of the rooms table; an alias that has a row is a conflict.
RoomAlias_create(rows, new_room_alias) ==
    IF new_room_alias.room_id \notin rooms
    THEN [rows |-> rows, result |-> Err(ApiError_room_not_found)]
    ELSE IF RowsFor(rows, new_room_alias.alias) # <<>>
    THEN [rows |-> rows, result |-> Err(ApiError_alias_taken)]
    ELSE [rows |-> Append(rows, new_room_alias), result |-> Ok(new_room_alias)]

\* RoomAlias::delete: delete-if-owner, in one statement; the number of rows
\* it removed.
RoomAlias_delete(rows, alias, user_id) ==
    LET kept == SelectSeq(rows,
                    LAMBDA row : ~(row.alias = alias /\ row.user_id = user_id))
    IN  [rows |-> kept, affected_rows |-> Len(rows) - Len(kept)]

(***************************************************************************)
(* The handlers' computations                                              *)
(***************************************************************************)

\* Err(not_found) for a parameter that is no alias localpart.
InvalidAliasError(room_alias) ==
    ApiError_not_found("No room alias found with ID {}", room_alias)

\* Mutant: the identifier's error answered as a bad request of its own, not
\* mapped to not_found.
get_room_alias_id_from_params_unmapped(param, domain) ==
    IF param = <<>> THEN Err(ApiError_missing_param("room_alias"))
    ELSE LET room_alias_id == RoomAliasId_try_from(FormatAlias(param[1], domain))
         IN  IF room_alias_id = <<>>
             THEN Err(Response(400, "M_INVALID_PARAM", "", param[1]))
             ELSE Ok(room_alias_id[1])

\* get_room_alias_id_from_params(params, domain); params.find("room_alias")
\* is the option `param`.
get_room_alias_id_from_params(param, domain) ==
    IF param = <<>> THEN Err(ApiError_missing_param("room_alias"))
    ELSE LET room_alias_id == RoomAliasId_try_from(FormatAlias(param[1], domain))
         IN  IF room_alias_id = <<>> THEN Err(InvalidAliasError(param[1]))
             ELSE Ok(room_alias_id[1])

\* Mutant: the response names the alias where the room id belongs.
GetRoomAliasResponse_alias(room_alias) ==
    [status |-> 200, errcode |-> "", message |-> "", detail |-> <<>>,
     room_id |-> FormatAlias(room_alias.alias.localpart, room_alias.alias.hostname),
     servers |-> room_alias.servers]

\* GetRoomAlias::handle, the response built from the row found.
GetRoomAliasResponse(room_alias) ==
    [status |-> 200, errcode |-> "", message |-> "", detail |-> <<>>,
     room_id |-> RoomId_to_string(room_alias.room_id),
     servers |-> room_alias.servers]

\* Mutant: `affected_rows >= 0` for `affected_rows > 0`.
DeleteRoomAliasResponse_ge(affected_rows) ==
    IF affected_rows >= 0
    THEN Response(200, "", "{}", <<>>)
    ELSE ApiError_not_found(
            "Provided room alias did not exist or you do not have access to delete it.",
            <<>>)

\* Mutant: `affected_rows > 1` for `affected_rows > 0`.
DeleteRoomAliasResponse_gt1(affected_rows) ==
    IF affected_rows > 1
    THEN Response(200, "", "{}", <<>>)
    ELSE ApiError_not_found(
            "Provided room alias did not exist or you do not have access to delete it.",
            <<>>)

\* DeleteRoomAlias::handle, the response to the number of rows deleted.
DeleteRoomAliasResponse(affected_rows) ==
    IF affected_rows > 0
    THEN Response(200, "", "{}", <<>>)
    ELSE ApiError_not_found(
            "Provided room alias did not exist or you do not have access to delete it.",
            <<>>)

\* Mutant: a DELETE that removed nothing answers 403 when the alias has a row.
DeleteRoomAliasDelete_forbidden(rows, room_alias_id, user_id) ==
    LET deleted == RoomAlias_delete(rows, room_alias_id, user_id)
    IN  [rows |-> deleted.rows,
         resp |-> IF deleted.affected_rows = 0 /\ RowsFor(rows, room_alias_id) # <<>>
                  THEN Response(403, "M_FORBIDDEN", "", <<>>)
                  ELSE DeleteRoomAliasResponse(deleted.affected_rows)]

\* Mutant: the deletion is of the alias whoever its user is.
DeleteRoomAliasDelete_any_user(rows, room_alias_id, user_id) ==
    [rows |-> RowsNotFor(rows, room_alias_id),
     resp |-> DeleteRoomAliasResponse(Len(RowsFor(rows, room_alias_id)))]

\* Mutant: the deletion is of every alias of the user, the alias of the
\* request only counted.
DeleteRoomAliasDelete_of_user(rows, room_alias_id, user_id) ==
    LET deleted == RoomAlias_delete(rows, room_alias_id, user_id)
    IN  [rows |-> SelectSeq(rows, LAMBDA row : row.user_id # user_id),
         resp |-> DeleteRoomAliasResponse(deleted.affected_rows)]

\* DeleteRoomAlias::handle at the database: RoomAlias::delete, and the response
\* to the number of rows it removed.
DeleteRoomAliasDelete(rows, room_alias_id, user_id) ==
    LET deleted == RoomAlias_delete(rows, room_alias_id, user_id)
    IN  [rows |-> deleted.rows,
         resp |-> DeleteRoomAliasResponse(deleted.affected_rows)]

\* PutRoomAlias::handle, the room id of the request body: bad_json when the
\* body is no {room_id}; when room_id is no room id, ApiError::from of the
\* identifier's error, which the error taxonomy files under the room that
\* does not resolve.
PutRoomAliasRoomId(body) ==
    IF body = <<>> THEN Err(ApiError_bad_json)
    ELSE LET room_id == RoomId_try_from(body[1])
         IN  IF room_id = <<>> THEN Err(ApiError_room_not_found)
             ELSE Ok(room_id[1])

\* Mutant: the new alias is built without its servers.
NewRoomAlias_partial(room_alias_id, room_id, user_id, domain) ==
    [alias |-> room_alias_id, room_id |-> room_id, user_id |-> user_id,
     servers |-> <<>>]

\* PutRoomAlias::handle, the NewRoomAlias it inserts.
NewRoomAlias(room_alias_id, room_id, user_id, domain) ==
    [alias |-> room_alias_id, room_id |-> room_id, user_id |-> user_id,
     servers |-> <<domain>>]

\* Mutant: a plain insert, with no check that the alias is free.
PutRoomAliasCreate_unchecked(rows, new_room_alias) ==
    IF new_room_alias.room_id \notin rooms
    THEN [rows |-> rows, result |-> Err(ApiError_room_not_found)]
    ELSE [rows |-> Append(rows, new_room_alias), result |-> Ok(new_room_alias)]

\* Mutant: an upsert, the new alias replacing the row of a taken one.
PutRoomAliasCreate_upsert(rows, new_room_alias) ==
    IF new_room_alias.room_id \notin rooms
    THEN [rows |-> rows, result |-> Err(ApiError_room_not_found)]
    ELSE [rows |-> Append(RowsNotFor(rows, new_room_alias.alias), new_room_alias),
          result |-> Ok(new_room_alias)]

\* PutRoomAlias::handle, the insert of the new alias.
PutRoomAliasCreate(rows, new_room_alias) ==
    RoomAlias_create(rows, new_room_alias)

\* Mutant: the result of the insert is dropped.
PutRoomAliasResponse_ignored(created) ==
    Response(200, "", "", <<>>)

\* PutRoomAlias::handle, the response after the insert.
PutRoomAliasResponse(created) ==
    IF created.err # <<>> THEN created.err[1] ELSE Response(200, "", "", <<>>)

\* Mutant: the body is read before the :room_alias parameter.
PutRoomAliasParse_body_first(req) ==
    LET room_alias_id == get_room_alias_id_from_params(req.room_alias, Domain)
        room_id == PutRoomAliasRoomId(req.body)
    IN  IF room_id.err # <<>> THEN room_id
        ELSE IF room_alias_id.err # <<>> THEN room_alias_id
        ELSE IF req.user = <<>> THEN Err(Panic)
        ELSE Ok(NewRoomAlias(room_alias_id.ok[1], room_id.ok[1], req.user[1], Domain))

\* PutRoomAlias::handle up to the database: the alias, then the body, then
\* the user the request carries.
PutRoomAliasParse(req) ==
    LET room_alias_id == get_room_alias_id_from_params(req.room_alias, Domain)
        room_id == PutRoomAliasRoomId(req.body)
    IN  IF room_alias_id.err # <<>> THEN room_alias_id
        ELSE IF room_id.err # <<>> THEN room_id
        ELSE IF req.user = <<>> THEN Err(Panic)
        ELSE Ok(NewRoomAlias(room_alias_id.ok[1], room_id.ok[1], req.user[1], Domain))

\* DeleteRoomAlias::handle up to the database: the alias, then the user the
\* request carries.
DeleteRoomAliasParse(req) ==
    LET room_alias_id == get_room_alias_id_from_params(req.room_alias, Domain)
    IN  IF room_alias_id.err # <<>> THEN room_alias_id
        ELSE IF req.user = <<>> THEN Err(Panic)
        ELSE Ok([alias |-> room_alias_id.ok[1], user_id |-> req.user[1]])

(***************************************************************************)
(* Requests                                                                *)
(***************************************************************************)

Option(S) == {<<>>} \cup {<<x>> : x \in S}

\* The requests as their handlers see them. A GET has no user:
\* GetRoomAlias::chain links no AccessTokenAuth.
GetRequests ==
    [op : {"GET"}, room_alias : Option(RoomAliasParams), body : {<<>>},
     user : {<<>>}]

PutRequests ==
    [op : {"PUT"}, room_alias : Option(RoomAliasParams),
     body : Option(RoomIdStrings), user : {<<u>> : u \in Users}]

DeleteRequests ==
    [op : {"DELETE"}, room_alias : Option(RoomAliasParams), body : {<<>>},
     user : {<<u>> : u \in Users}]

(***************************************************************************)
(* State                                                                   *)
(***************************************************************************)

VARIABLES
    room_aliases,   \* the room_aliases table
    inflight,       \* bag of the requests at their handler's database call
    done,           \* bag of the requests answered, with their responses
    bindings,       \* history: per :room_alias, the PUT that bound it last
    initial         \* history: the room_aliases table at the start

vars == <<room_aliases, inflight, done, bindings, initial>>

NoBindings == [param \in RoomAliasParams |-> <<>>]

Init ==
    /\ room_aliases = <<>>
    /\ inflight = EmptyBag
    /\ done = EmptyBag
    /\ bindings = NoBindings
    /\ initial = <<>>

\* The alias id of a request, as every handler computes it first.
RequestAlias(req) == get_room_alias_id_from_params(req.room_alias, Domain)

\* Whether the handler of req answers before it reaches the database.
FailsEarly(req) ==
    IF req.op = "PUT" THEN PutRoomAliasParse(req).err # <<>>
    ELSE IF req.op = "DELETE" THEN DeleteRoomAliasParse(req).err # <<>>
    ELSE RequestAlias(req).err # <<>>

\* The transport takes a response before the next one is written.
CanAnswer == done = EmptyBag

\* The server runs at most MaxReq handlers at once.
CanAccept(req) ==
    /\ BagCardinality(inflight) < MaxReq
    /\ FailsEarly(req) => CanAnswer

\* The answered request: the response, and for the history the rows of its
\* alias and the PUT that bound the alias, both as of the answer.
Answered(req, resp) ==
    [req |-> req, resp |-> resp,
     pre |-> IF RequestAlias(req).err # <<>> THEN <<>>
             ELSE RowsFor(room_aliases, RequestAlias(req).ok[1]),
     bound_by |-> IF RequestAlias(req).err # <<>> THEN <<>>
                  ELSE bindings[req.room_alias[1]]]

Answer(req, resp) == done' = done (+) SetToBag({Answered(req, resp)})

Enter(req) == inflight' = inflight (+) SetToBag({req})

\* Mutant: the table call returns only to a handler that runs alone.
Leave_alone(req) ==
    /\ BagIn(req, inflight)
    /\ BagCardinality(inflight) = 1
    /\ inflight' = inflight (-) SetToBag({req})

Leave(req) == BagIn(req, inflight) /\ inflight' = inflight (-) SetToBag({req})

(***************************************************************************)
(* GetRoomAlias::handle                                                    *)
(***************************************************************************)

\* Up to the database: the alias id of the parameter, or its error.
GetStart(req) ==
    /\ IF RequestAlias(req).err # <<>>
       THEN Answer(req, RequestAlias(req).err[1]) /\ UNCHANGED inflight
       ELSE Enter(req) /\ UNCHANGED done
    /\ UNCHANGED <<room_aliases, bindings, initial>>

\* RoomAlias::find_by_alias and the response.
GetFind(req) ==
    /\ req.op = "GET"
    /\ Leave(req)
    /\ LET found == RoomAlias_find_by_alias(room_aliases, RequestAlias(req).ok[1])
       IN  Answer(req, IF found.err # <<>> THEN found.err[1]
                       ELSE GetRoomAliasResponse(found.ok[1]))
    /\ UNCHANGED <<room_aliases, bindings, initial>>

(***************************************************************************)
(* PutRoomAlias::handle                                                    *)
(***************************************************************************)

\* Up to the database: the alias id, the room id of the body, the user.
PutStart(req) ==
    /\ IF PutRoomAliasParse(req).err # <<>>
       THEN Answer(req, PutRoomAliasParse(req).err[1]) /\ UNCHANGED inflight
       ELSE Enter(req) /\ UNCHANGED done
    /\ UNCHANGED <<room_aliases, bindings, initial>>

\* RoomAlias::create and the response.
PutCreate(req) ==
    /\ req.op = "PUT"
    /\ Leave(req)
    /\ LET created == PutRoomAliasCreate(room_aliases, PutRoomAliasParse(req).ok[1])
           resp == PutRoomAliasResponse(created.result)
       IN  /\ room_aliases' = created.rows
           /\ Answer(req, resp)
           /\ bindings' = IF resp.status = 200
                          THEN [bindings EXCEPT ![req.room_alias[1]] = <<req>>]
                          ELSE bindings
    /\ UNCHANGED initial

(***************************************************************************)
(* DeleteRoomAlias::handle                                                 *)
(***************************************************************************)

\* Up to the database: the alias id of the parameter, then the user.
DeleteStart(req) ==
    /\ IF DeleteRoomAliasParse(req).err # <<>>
       THEN Answer(req, DeleteRoomAliasParse(req).err[1]) /\ UNCHANGED inflight
       ELSE Enter(req) /\ UNCHANGED done
    /\ UNCHANGED <<room_aliases, bindings, initial>>

\* RoomAlias::delete and the response.
DeleteDelete(req) ==
    /\ req.op = "DELETE"
    /\ Leave(req)
    /\ LET deleted == DeleteRoomAliasDelete(room_aliases,
                                            DeleteRoomAliasParse(req).ok[1].alias,
                                            DeleteRoomAliasParse(req).ok[1].user_id)
       IN  /\ room_aliases' = deleted.rows
           /\ Answer(req, deleted.resp)
           /\ bindings' = IF deleted.resp.status = 200
                          THEN [bindings EXCEPT ![req.room_alias[1]] = <<>>]
                          ELSE bindings
    /\ UNCHANGED initial

(***************************************************************************)
(* The transport takes an answered request's response.                     *)
(***************************************************************************)

Deliver(d) ==
    /\ BagIn(d, done)
    /\ done' = done (-) SetToBag({d})
    /\ UNCHANGED <<room_aliases, inflight, bindings, initial>>

Next ==
    \/ \E req \in GetRequests : CanAccept(req) /\ GetStart(req)
    \/ \E req \in GetRequests : CanAnswer /\ GetFind(req)
    \/ \E req \in PutRequests : CanAccept(req) /\ PutStart(req)
    \/ \E req \in PutRequests : CanAnswer /\ PutCreate(req)
    \/ \E req \in DeleteRequests : CanAccept(req) /\ DeleteStart(req)
    \/ \E req \in DeleteRequests : CanAnswer /\ DeleteDelete(req)
    \/ \E d \in BagToSet(done) : Deliver(d)

Spec == Init /\ [][Next]_vars

(***************************************************************************)
(* Concurrent PUTs alone: every request the server takes is a PUT, and the *)
(* answered requests are kept.                                             *)
(***************************************************************************)

\* The server takes MaxReq requests in all.
RaceAdmit == BagCardinality(inflight) + BagCardinality(done) < MaxReq

NextBindRace ==
    \/ \E req \in PutRequests : RaceAdmit /\ PutStart(req)
    \/ \E req \in PutRequests : PutCreate(req)

SpecBindRace == Init /\ [][NextBindRace]_vars

(***************************************************************************)
(* One PUT racing one DELETE of the same alias, from a table in which the  *)
(* alias is free or bound; the answered requests are kept.                 *)
(***************************************************************************)

RaceParam == <<"a">>

\* The PUT that binds RaceParam to the room that exists, by user u.
RaceBinding(u) ==
    [op |-> "PUT", room_alias |-> <<RaceParam>>,
     body |-> <<<<"!", "r", ":", "d">>>>, user |-> <<u>>]

InitBindUnbindRace ==
    /\ inflight = EmptyBag
    /\ done = EmptyBag
    /\ \/ room_aliases = <<>> /\ bindings = NoBindings
       \/ \E u \in Users :
             /\ room_aliases = <<PutRoomAliasParse(RaceBinding(u)).ok[1]>>
             /\ bindings = [NoBindings EXCEPT ![RaceParam] = <<RaceBinding(u)>>]
    /\ initial = room_aliases

\* No request of this method was taken yet.
NoneOf(op) ==
    /\ \A req \in BagToSet(inflight) : req.op # op
    /\ \A d \in BagToSet(done) : d.req.op # op

NextBindUnbindRace ==
    \/ \E req \in PutRequests :
          req.room_alias = <<RaceParam>> /\ NoneOf("PUT") /\ PutStart(req)
    \/ \E req \in PutRequests : PutCreate(req)
    \/ \E req \in DeleteRequests :
          req.room_alias = <<RaceParam>> /\ NoneOf("DELETE") /\ DeleteStart(req)
    \/ \E req \in DeleteRequests : DeleteDelete(req)

SpecBindUnbindRace == InitBindUnbindRace /\ [][NextBindUnbindRace]_vars

(***************************************************************************)
(* A history of one alias: from a table in which the alias is bound, the   *)
(* requests that name it, at most MaxReq of them running at once; every    *)
(* answered request is kept, MaxKept requests in all.                      *)
(***************************************************************************)

MaxKept == 4

InitBound ==
    /\ inflight = EmptyBag
    /\ done = EmptyBag
    /\ \E u \in Users :
          /\ room_aliases = <<PutRoomAliasParse(RaceBinding(u)).ok[1]>>
          /\ bindings = [NoBindings EXCEPT ![RaceParam] = <<RaceBinding(u)>>]
    /\ initial = room_aliases

\* One more request of the history may start.
HistoryAdmit ==
    /\ BagCardinality(inflight) < MaxReq
    /\ BagCardinality(inflight) + BagCardinality(done) < MaxKept

NextHistory ==
    \/ \E req \in GetRequests :
          req.room_alias = <<RaceParam>> /\ HistoryAdmit /\ GetStart(req)
    \/ \E req \in GetRequests : GetFind(req)
    \/ \E req \in PutRequests :
          req.room_alias = <<RaceParam>> /\ HistoryAdmit /\ PutStart(req)
    \/ \E req \in PutRequests : PutCreate(req)
    \/ \E req \in DeleteRequests :
          req.room_alias = <<RaceParam>> /\ HistoryAdmit /\ DeleteStart(req)
    \/ \E req \in DeleteRequests : DeleteDelete(req)

SpecHistory == InitBound /\ [][NextHistory]_vars

(***************************************************************************)
(* DELETEs racing each other, from a table in which the alias is bound;    *)
(* the answered requests are kept.                                         *)
(***************************************************************************)

NextUnbindRace ==
    \/ \E req \in DeleteRequests : RaceAdmit /\ DeleteStart(req)
    \/ \E req \in DeleteRequests : DeleteDelete(req)

SpecUnbindRace == InitBound /\ [][NextUnbindRace]_vars

(***************************************************************************)
(* Handlers under fair scheduling: every handler runs on a thread of its   *)
(* own, and its table call, once made, returns; the answered requests are  *)
(* kept.                                                                   *)
(***************************************************************************)

Requests == GetRequests \cup PutRequests \cup DeleteRequests

\* The table call of the handler of req, and its response.
HandlerStep(req) ==
    \/ req \in GetRequests /\ GetFind(req)
    \/ req \in PutRequests /\ PutCreate(req)
    \/ req \in DeleteRequests /\ DeleteDelete(req)

\* Some running handler makes its table call.
SomeHandlerStep == \E req \in BagToSet(inflight) : HandlerStep(req)

\* The :room_alias parameter is present and is no alias localpart.
MalformedAlias(req) ==
    /\ req.room_alias # <<>>
    /\ RoomAliasId_try_from(FormatAlias(req.room_alias[1], Domain)) = <<>>

\* The room_id string names a room of the rooms table.
RoomExists(body) ==
    /\ body # <<>>
    /\ RoomId_try_from(body[1]) # <<>>
    /\ RoomId_try_from(body[1])[1] \in rooms

\* The requests taken under fair scheduling: of an alias, or with no
\* :room_alias parameter; a PUT with the room that exists, or with no body.
FairRequests ==
    {req \in Requests :
        /\ req.room_alias = <<>> \/ ~MalformedAlias(req)
        /\ req.body = <<>> \/ RoomExists(req.body)}

NextFair ==
    \/ \E req \in GetRequests \cap FairRequests : RaceAdmit /\ GetStart(req)
    \/ \E req \in PutRequests \cap FairRequests : RaceAdmit /\ PutStart(req)
    \/ \E req \in DeleteRequests \cap FairRequests : RaceAdmit /\ DeleteStart(req)
    \/ SomeHandlerStep

SpecFair == Init /\ [][NextFair]_vars /\ WF_vars(SomeHandlerStep)

(***************************************************************************)
(* The chains: a request comes with the user of its access token, or with  *)
(* none, and passes the middleware linked before its handler; the answered *)
(* requests are kept.                                                      *)
(***************************************************************************)

\* The user of the access token of a request, none without a valid token.
Tokens == Option(Users)

\* The rejection of a request without a valid access token.
Unauthorized == Response(401, "M_UNKNOWN_TOKEN", "", <<>>)

\* The request before any middleware has run: no user is attached to it.
Unauthenticated(req) == [req EXCEPT !.user = <<>>]

\* AccessTokenAuth: the request with the user of its token, or the rejection.
AccessTokenAuth(req, token) ==
    IF token = <<>> THEN Err(Unauthorized) ELSE Ok([req EXCEPT !.user = token])

\* JsonRequest: keeps the body of the request for the handler, which
\* answers bad_json to a body that is no {room_id}.
JsonRequest(req) == Ok(req)

\* A middleware answers the request; its handler does not run.
Reject(req, resp) ==
    /\ Answer(req, resp)
    /\ UNCHANGED <<room_aliases, inflight, bindings, initial>>

\* GetRoomAlias::chain: the handler alone.
GetRoomAliasChain(req, token) == GetStart(req)

\* Mutant: the chain of DELETE links no AccessTokenAuth.
DeleteRoomAliasChain_no_auth(req, token) == DeleteStart(req)

\* DeleteRoomAlias::chain: AccessTokenAuth before the handler.
DeleteRoomAliasChain(req, token) ==
    LET auth == AccessTokenAuth(req, token)
    IN  IF auth.err # <<>> THEN Reject(req, auth.err[1])
        ELSE DeleteStart(auth.ok[1])

\* PutRoomAlias::chain: JsonRequest, then AccessTokenAuth, before the handler.
PutRoomAliasChain(req, token) ==
    LET json == JsonRequest(req)
    IN  IF json.err # <<>> THEN Reject(req, json.err[1])
        ELSE LET auth == AccessTokenAuth(json.ok[1], token)
             IN  IF auth.err # <<>> THEN Reject(req, auth.err[1])
                 ELSE PutStart(auth.ok[1])

NextChain ==
    \/ \E req \in GetRequests, token \in Tokens :
          RaceAdmit /\ GetRoomAliasChain(req, token)
    \/ \E req \in GetRequests : GetFind(req)
    \/ \E req \in PutRequests, token \in Tokens :
          RaceAdmit /\ PutRoomAliasChain(Unauthenticated(req), token)
    \/ \E req \in PutRequests : PutCreate(req)
    \/ \E req \in DeleteRequests, token \in Tokens :
          RaceAdmit /\ DeleteRoomAliasChain(Unauthenticated(req), token)
    \/ \E req \in DeleteRequests : DeleteDelete(req)

SpecChain == Init /\ [][NextChain]_vars

(***************************************************************************)
(* Helpers of the properties                                               *)
(***************************************************************************)

Answers == BagToSet(done)

\* d is answered by this step.
NewlyAnswered(d) == CopiesIn(d, done') > CopiesIn(d, done)

\* The request's handler reached its database call.
ReachedDatabase(d) == ~FailsEarly(d.req)

Succeeded(d) == d.resp.status = 200

IsNotFound(resp) == resp.status = 404 /\ resp.errcode = "M_NOT_FOUND"

IsAliasTaken(resp) == resp.status = 409 /\ resp.errcode = "IO_RUMA_ALIAS_TAKEN"

IsRoomNotFound(resp) == resp.status = 422

(***************************************************************************)
(* C1  Namespace uniqueness                                                *)
(***************************************************************************)

\* C1: in every reachable state, whatever GET, PUT and DELETE requests have
\* run and however their steps interleaved, no two rows of room_aliases have
\* the same alias.
C1_NamespaceUniqueness ==
    \A i, j \in 1..Len(room_aliases) :
        room_aliases[i].alias = room_aliases[j].alias => i = j

\* A PUT for an alias that had a row was answered, and the alias still has
\* exactly one row.
C1_Witness ==
    \E d \in Answers :
        /\ d.req.op = "PUT"
        /\ ReachedDatabase(d)
        /\ d.pre # <<>>
        /\ Len(RowsFor(room_aliases, RequestAlias(d.req).ok[1])) = 1

(***************************************************************************)
(* C2  Round trip                                                          *)
(***************************************************************************)

\* C2: a GET of an alias that a successful PUT bound, with no successful
\* DELETE of the alias since, answers 200 with room_id equal to the room_id
\* string of that PUT's body and with the local domain among servers.
C2_RoundTrip ==
    \A d \in Answers :
        (d.req.op = "GET" /\ d.bound_by # <<>>) =>
            /\ Succeeded(d)
            /\ d.resp.room_id = d.bound_by[1].body[1]
            /\ \E i \in 1..Len(d.resp.servers) : d.resp.servers[i] = Domain

\* A GET was answered for an alias bound by an earlier PUT.
C2_Witness ==
    \E d \in Answers :
        /\ d.req.op = "GET"
        /\ d.bound_by # <<>>
        /\ d.resp.room_id = <<"!", "r", ":", "d">>

(***************************************************************************)
(* C3  A PUT on a bound alias is a conflict                                *)
(***************************************************************************)

ResolveOn(rows, room_alias_id) ==
    LET found == RoomAlias_find_by_alias(rows, room_alias_id)
    IN  IF found.err # <<>> THEN found.err[1]
        ELSE GetRoomAliasResponse(found.ok[1])

\* C4: a DELETE of an alias succeeds if and only if the alias has a row whose
\* user is the caller, and then that row is removed and no other; otherwise
\* (no row, or a row of another user, or no alias localpart) it is answered
\* 404 M_NOT_FOUND, the table is unchanged, and a GET of the alias still
\* answers the room of the row.
C4_OwnerGatedDelete ==
    [][\A d \in BagToSet(done') :
          (NewlyAnswered(d) /\ d.req.op = "DELETE" /\ d.req.room_alias # <<>>) =>
              LET owned == /\ d.pre # <<>>
                           /\ d.pre[1].user_id = d.req.user[1]
              IN  /\ Succeeded(d) <=> owned
                  /\ owned =>
                        /\ RowsFor(room_aliases', RequestAlias(d.req).ok[1]) = <<>>
                        /\ RowsNotFor(room_aliases', RequestAlias(d.req).ok[1])
                             = RowsNotFor(room_aliases, RequestAlias(d.req).ok[1])
                  /\ ~owned =>
                        /\ IsNotFound(d.resp)
                        /\ room_aliases' = room_aliases
                        /\ d.pre # <<>> =>
                              ResolveOn(room_aliases', RequestAlias(d.req).ok[1]).room_id
                                 = RoomId_to_string(d.pre[1].room_id)]_vars

\* A user who does not own the alias sent a DELETE and was answered, and the
\* owner's row is still in the table.
C4_Witness ==
    \E d \in Answers :
        /\ d.req.op = "DELETE"
        /\ d.pre # <<>>
        /\ d.pre[1].user_id # d.req.user[1]
        /\ IsNotFound(d.resp)
        /\ RowsFor(room_aliases, RequestAlias(d.req).ok[1]) = d.pre

(***************************************************************************)
(* C5  Concurrent PUTs of one alias                                        *)
(***************************************************************************)

\* The answered PUTs of the parameter that reached the insert with a room
\* that exists, as a bag.
BindsOf(param) ==
    [d \in {x \in Answers : /\ x.req.op = "PUT"
                            /\ x.req.room_alias = <<param>>
                            /\ ReachedDatabase(x)
                            /\ RoomExists(x.req.body)} |-> done[d]]

SucceededIn(bag) == [d \in {x \in DOMAIN bag : Succeeded(x)} |-> bag[d]]

\* C5: when only PUTs run, in any interleaving, on a table that starts
\* empty: as soon as one PUT of an alias with a room that exists is
\* answered, exactly one of the answered ones succeeded, every other one was
\* answered 409 IO_RUMA_ALIAS_TAKEN, and the alias has exactly one row: the
\* alias, room and user of the PUT that succeeded.
C5_ConcurrentBind ==
    \A param \in RoomAliasParams :
        BindsOf(param) # EmptyBag =>
            /\ BagCardinality(SucceededIn(BindsOf(param))) = 1
            /\ \A d \in DOMAIN BindsOf(param) : Succeeded(d) \/ IsAliasTaken(d.resp)
            /\ \E d \in DOMAIN SucceededIn(BindsOf(param)) :
                 LET rows == RowsFor(room_aliases, RequestAlias(d.req).ok[1])
                 IN  /\ Len(rows) = 1
                     /\ rows[1].user_id = d.req.user[1]
                     /\ RoomId_to_string(rows[1].room_id) = d.req.body[1]

\* Every request the server took was a PUT of one alias with a room that
\* exists, at least two of them by different users, and all are answered.
C5_Witness ==
    \E param \in RoomAliasParams :
        /\ inflight = EmptyBag
        /\ BagCardinality(BindsOf(param)) = MaxReq
        /\ \E d, e \in DOMAIN BindsOf(param) :
             /\ Succeeded(d)
             /\ IsAliasTaken(e.resp)
             /\ d.req.user # e.req.user

(***************************************************************************)
(* C6  Room validity gate                                                  *)
(***************************************************************************)

\* C6: a PUT with an alias and a room_id that is no room of the rooms table
\* (well-formed or not) is answered 422, neither the 404 of an alias that is
\* not found nor the 409 of a taken one, and the table is left as it was; no
\* row of the table ever names a room that does not exist.
C6_RoomValidityGate ==
    [][/\ \A d \in BagToSet(done') :
            (/\ NewlyAnswered(d)
             /\ d.req.op = "PUT"
             /\ RequestAlias(d.req).err = <<>>
             /\ d.req.body # <<>>
             /\ ~RoomExists(d.req.body)) =>
                /\ IsRoomNotFound(d.resp)
                /\ ~IsNotFound(d.resp)
                /\ ~IsAliasTaken(d.resp)
                /\ room_aliases' = room_aliases
       /\ \A i \in 1..Len(room_aliases') : room_aliases'[i].room_id \in rooms]_vars

\* A PUT of a free alias to the well-formed id of no room was answered 422,
\* and the alias is still free.
C6_Witness ==
    \E d \in Answers :
        /\ d.req.op = "PUT"
        /\ d.req.body = << <<"!", "n", ":", "d">> >>
        /\ ReachedDatabase(d)
        /\ IsRoomNotFound(d.resp)
        /\ RowsFor(room_aliases, RequestAlias(d.req).ok[1]) = <<>>

(***************************************************************************)
(* C7  No existence leak on DELETE                                         *)
(***************************************************************************)

\* The one response of a DELETE that removed nothing.
DeleteNotFound ==
    [status |-> 404, errcode |-> "M_NOT_FOUND",
     message |-> "Provided room alias did not exist or you do not have access to delete it.",
     detail |-> <<>>, room_id |-> <<>>, servers |-> <<>>]

\* C7: the response (status, error code, message) of a DELETE by a caller who
\* does not own the alias is one fixed value, whether the alias has no row or
\* has the row of another user: two runs that differ only in that get the
\* same response.
C7_NoExistenceLeak ==
    \A d \in Answers :
        (/\ d.req.op = "DELETE"
         /\ ReachedDatabase(d)
         /\ ~(d.pre # <<>> /\ d.pre[1].user_id = d.req.user[1])) =>
            d.resp = DeleteNotFound

\* A DELETE of an alias bound by another user was answered as the DELETE of
\* an alias with no row is.
C7_Witness ==
    \E d \in Answers :
        /\ d.req.op = "DELETE"
        /\ d.pre # <<>>
        /\ d.pre[1].user_id # d.req.user[1]
        /\ d.resp = DeleteRoomAliasDelete(<<>>, RequestAlias(d.req).ok[1],
                                          d.req.user[1]).resp

(***************************************************************************)
(* C8  GET                                                                 *)
(***************************************************************************)

\* C8: a GET with a :room_alias parameter answers 200 with the room and the
\* servers of the alias's row exactly when the parameter is an alias
\* localpart and the alias has a row; it answers 404 M_NOT_FOUND when the
\* alias has no row and when the parameter is no alias localpart.
C8_Resolve ==
    \A d \in Answers :
        (d.req.op = "GET" /\ d.req.room_alias # <<>>) =>
            IF ~MalformedAlias(d.req) /\ d.pre # <<>>
            THEN /\ Succeeded(d)
                 /\ d.resp.room_id = RoomId_to_string(d.pre[1].room_id)
                 /\ d.resp.servers = d.pre[1].servers
            ELSE IsNotFound(d.resp)

\* A GET whose parameter is no alias localpart was answered 404 M_NOT_FOUND.
C8_Witness ==
    \E d \in Answers :
        /\ d.req.op = "GET"
        /\ MalformedAlias(d.req)
        /\ IsNotFound(d.resp)

(***************************************************************************)
(* C9  PUT with a malformed alias                                          *)
(***************************************************************************)

\* C9: a PUT whose :room_alias parameter is no alias localpart (empty, or
\* outside the grammar) fails with an invalid-alias error that is not the
\* 404 M_NOT_FOUND of an alias that is not found, and adds no row.
C9_BindInvalidAlias ==
    \A d \in Answers :
        (d.req.op = "PUT" /\ MalformedAlias(d.req)) =>
            /\ ~Succeeded(d)
            /\ ~IsNotFound(d.resp)
            /\ d.pre = <<>>

(***************************************************************************)
(* C10  PUT racing DELETE                                                  *)
(***************************************************************************)

\* The binding of RaceParam in a table: no element when the alias is free,
\* one [owner, room, servers] per row otherwise.
BindingIn(rows) ==
    LET of == RowsFor(rows, RequestAlias(RaceBinding("u1")).ok[1])
    IN  [i \in 1..Len(of) |->
            [owner |-> of[i].user_id, room |-> RoomId_to_string(of[i].room_id),
             servers |-> of[i].servers]]

\* Bind of the directory's state machine, run alone on a binding.
SeqBind(binding, req) ==
    IF req.body = <<>> THEN [status |-> 400, binding |-> binding]
    ELSE IF ~RoomExists(req.body) THEN [status |-> 422, binding |-> binding]
    ELSE IF binding # <<>> THEN [status |-> 409, binding |-> binding]
    ELSE [status |-> 200,
          binding |-> <<[owner |-> req.user[1], room |-> req.body[1],
                         servers |-> <<Domain>>]>>]

\* Unbind of the directory's state machine, run alone on a binding.
SeqUnbind(binding, req) ==
    IF binding # <<>> /\ binding[1].owner = req.user[1]
    THEN [status |-> 200, binding |-> <<>>]
    ELSE [status |-> 404, binding |-> binding]

\* C10: one PUT and one DELETE of the same alias, their steps interleaved in
\* any way, from a table in which the alias is free or bound: the two
\* responses and the alias's rows at the end are those of the PUT run before
\* the DELETE or of the DELETE run before the PUT, and while only one of the
\* two is answered they are those of that request run alone; the row, when
\* there is one, is whole (owner, room, servers).
C10_BindUnbindRace ==
    \A p, q \in Answers \cup {<<>>} :
        (/\ p # <<>> => p.req.op = "PUT"
         /\ q # <<>> => q.req.op = "DELETE"
         /\ \A d \in Answers : d = p \/ d = q
         /\ Answers # {}) =>
            LET start == BindingIn(initial)
                b1 == SeqBind(start, p.req)
                u1 == SeqUnbind(b1.binding, q.req)
                u2 == SeqUnbind(start, q.req)
                b2 == SeqBind(u2.binding, p.req)
                now == BindingIn(room_aliases)
            IN  IF q = <<>> THEN p.resp.status = b1.status /\ now = b1.binding
                ELSE IF p = <<>> THEN q.resp.status = u2.status /\ now = u2.binding
                ELSE \/ /\ p.resp.status = b1.status
                        /\ q.resp.status = u1.status
                        /\ now = u1.binding
                     \/ /\ p.resp.status = b2.status
                        /\ q.resp.status = u2.status
                        /\ now = b2.binding

\* From an alias bound by one user: that user's DELETE and another user's PUT
\* both succeeded, which only the DELETE running first explains, and the
\* alias is bound by the other user.
C10_Witness ==
    /\ initial # <<>>
    /\ \E p, q \in Answers :
         /\ p.req.op = "PUT" /\ Succeeded(p)
         /\ q.req.op = "DELETE" /\ Succeeded(q)
         /\ p.req.user # q.req.user
         /\ BindingIn(room_aliases) # <<>>
         /\ BindingIn(room_aliases)[1].owner = p.req.user[1]

(***************************************************************************)
(* C11  The state machine of an alias                                      *)
(***************************************************************************)

\* The alias ids the :room_alias parameters of the requests name.
Aliases ==
    {RequestAlias([room_alias |-> <<param>>]).ok[1] :
        param \in {x \in RoomAliasParams :
                      RequestAlias([room_alias |-> <<x>>]).err = <<>>}}

\* The request of d names the alias.
Addresses(d, alias) ==
    RequestAlias(d.req).err = <<>> /\ RequestAlias(d.req).ok[1] = alias

\* C11: in every step, an alias with no row gets one only as a PUT of that
\* alias is answered 200, and an alias with a row loses it only as a DELETE
\* of that alias by the user of the row is answered 200; a step that answers
\* a GET, or a PUT or DELETE with an error, and a step that answers nothing,
\* leave room_aliases as it is.
C11_AliasStateMachine ==
    [][/\ \A alias \in Aliases :
             LET before == RowsFor(room_aliases, alias)
                 after == RowsFor(room_aliases', alias)
             IN  /\ (before = <<>> /\ after # <<>>) =>
                        \E d \in BagToSet(done') :
                            /\ NewlyAnswered(d) /\ Addresses(d, alias)
                            /\ d.req.op = "PUT" /\ Succeeded(d)
                 /\ (before # <<>> /\ after = <<>>) =>
                        \E d \in BagToSet(done') :
                            /\ NewlyAnswered(d) /\ Addresses(d, alias)
                            /\ d.req.op = "DELETE" /\ Succeeded(d)
                            /\ d.req.user = <<before[1].user_id>>
       /\ \A d \in BagToSet(done') :
             (NewlyAnswered(d) /\ (d.req.op = "GET" \/ ~Succeeded(d))) =>
                 room_aliases' = room_aliases
       /\ (\A d \in BagToSet(done') : ~NewlyAnswered(d)) =>
             room_aliases' = room_aliases]_vars

\* The owner's DELETE of a bound alias was answered 200 and the alias has no
\* row any more.
C11_Witness ==
    \E d \in Answers :
        /\ d.req.op = "DELETE" /\ Succeeded(d)
        /\ d.pre # <<>> /\ d.req.user = <<d.pre[1].user_id>>
        /\ RowsFor(room_aliases, RequestAlias(d.req).ok[1]) = <<>>

(***************************************************************************)
(* C12  The row of a bound alias does not change                           *)
(***************************************************************************)

\* C12: in every step, whatever request it serves, an alias that has a row
\* before the step and a row after it has the same row: the user, the room
\* and the servers a successful PUT wrote stay as written until a successful
\* DELETE removes the row.
C12_RecordImmutable ==
    [][\A alias \in Aliases :
          LET before == RowsFor(room_aliases, alias)
              after == RowsFor(room_aliases', alias)
          IN  (before # <<>> /\ after # <<>>) => after = before]_vars

\* A PUT of a bound alias by another user, with a room that exists, was
\* answered, and the row of the alias is the one the PUT found.
C12_Witness ==
    \E d \in Answers :
        /\ d.req.op = "PUT" /\ ReachedDatabase(d) /\ RoomExists(d.req.body)
        /\ d.pre # <<>> /\ d.req.user # <<d.pre[1].user_id>>
        /\ RowsFor(room_aliases, RequestAlias(d.req).ok[1]) = d.pre

(***************************************************************************)
(* C13  The servers of a row                                               *)
(***************************************************************************)

\* C13: every row of room_aliases has a servers list that is not empty and
\* holds the domain of the homeserver; every row being one a PUT inserted,
\* its servers list is exactly that one domain.
C13_Servers ==
    \A i \in 1..Len(room_aliases) :
        /\ room_aliases[i].servers # <<>>
        /\ \E k \in 1..Len(room_aliases[i].servers) :
              room_aliases[i].servers[k] = Domain
        /\ room_aliases[i].servers = <<Domain>>

\* A PUT was answered 200 and the row it inserted is in the table.
C13_Witness ==
    \E d \in Answers :
        /\ d.req.op = "PUT" /\ Succeeded(d)
        /\ \E i \in 1..Len(room_aliases) :
              /\ room_aliases[i].alias = RequestAlias(d.req).ok[1]
              /\ room_aliases[i].user_id = d.req.user[1]

(***************************************************************************)
(* C14  GET after a successful DELETE                                      *)
(***************************************************************************)

\* C14: in a history of an alias that starts bound, every GET of the alias
\* answered after a DELETE of it was answered 200, and before a later PUT of
\* it is answered 200, is answered 404 M_NOT_FOUND; a GET answered while a
\* binding stands is answered 200.
C14_ResolveAfterUnbind ==
    \A d \in Answers :
        (d.req.op = "GET" /\ ReachedDatabase(d)) =>
            /\ d.bound_by = <<>> => IsNotFound(d.resp)
            /\ d.bound_by # <<>> => Succeeded(d)

\* The owner's DELETE was answered 200, a GET after it 404, a PUT after that
\* 200 and a GET after the PUT 200.
C14_Witness ==
    \E u, g1, p, g2 \in Answers :
        /\ u.req.op = "DELETE" /\ Succeeded(u)
        /\ u.req.user = <<initial[1].user_id>>
        /\ g1.req.op = "GET" /\ g1.bound_by = <<>> /\ IsNotFound(g1.resp)
        /\ p.req.op = "PUT" /\ Succeeded(p)
        /\ g2.req.op = "GET" /\ g2.bound_by = <<p.req>> /\ Succeeded(g2)

(***************************************************************************)
(* C16  A new owner only by DELETE and PUT again                           *)
(***************************************************************************)

\* C16: in a history of an alias that starts bound, a PUT of the alias is
\* answered 200 only when the alias has no row, and a PUT with a room that
\* exists, of an alias left without a row by its owner's DELETE, is answered
\* 200 whoever sends it; the row is then of the user of that PUT; and a
\* DELETE is answered 200 when sent by the user of the PUT that stands, and
\* 404 M_NOT_FOUND when sent by anyone else, a previous owner included.
C16_OwnershipChange ==
    /\ \A d \in Answers :
          (d.req.op = "PUT" /\ ReachedDatabase(d)) =>
              /\ Succeeded(d) => d.pre = <<>>
              /\ (d.pre = <<>> /\ RoomExists(d.req.body)) => Succeeded(d)
    /\ \A d \in Answers :
          (d.req.op = "DELETE" /\ ReachedDatabase(d)) =>
              IF d.bound_by # <<>> /\ d.bound_by[1].user = d.req.user
              THEN Succeeded(d)
              ELSE IsNotFound(d.resp)
    /\ bindings[RaceParam] # <<>> =>
          /\ Len(room_aliases) = 1
          /\ <<room_aliases[1].user_id>> = bindings[RaceParam][1].user
    /\ bindings[RaceParam] = <<>> => room_aliases = <<>>

\* The owner's DELETE was answered 200, then another user's PUT 200, then a
\* DELETE by the previous owner 404 and a DELETE by the new owner 200.
C16_Witness ==
    \E u1, p, u2, u3 \in Answers :
        /\ u1.req.op = "DELETE" /\ Succeeded(u1)
        /\ u1.req.user = <<initial[1].user_id>>
        /\ p.req.op = "PUT" /\ Succeeded(p) /\ p.pre = <<>>
        /\ p.req.user # u1.req.user
        /\ u2.req.op = "DELETE" /\ IsNotFound(u2.resp)
        /\ u2.req.user = u1.req.user /\ u2.bound_by = <<p.req>>
        /\ u3.req.op = "DELETE" /\ Succeeded(u3)
        /\ u3.req.user = p.req.user /\ u3.bound_by = <<p.req>>

(***************************************************************************)
(* C15  Concurrent DELETEs of one alias                                    *)
(***************************************************************************)

\* The answered DELETEs of the bound alias by the user of its row, as a bag.
OwnerUnbinds ==
    [d \in {x \in Answers : /\ x.req.op = "DELETE"
                            /\ x.req.room_alias = <<RaceParam>>
                            /\ x.req.user = <<initial[1].user_id>>} |-> done[d]]

\* C15: when only DELETEs run, in any interleaving, on a table in which the
\* alias is bound: as soon as one DELETE of the alias by its owner is
\* answered, exactly one of the answered ones was answered 200, every other
\* one 404 M_NOT_FOUND, and the alias has no row.
C15_ConcurrentUnbind ==
    OwnerUnbinds # EmptyBag =>
        /\ BagCardinality(SucceededIn(OwnerUnbinds)) = 1
        /\ \A d \in DOMAIN OwnerUnbinds : Succeeded(d) \/ IsNotFound(d.resp)
        /\ room_aliases = <<>>

\* MaxReq DELETEs of the alias by its owner ran at once and all are
\* answered, one 200 and one 404.
C15_Witness ==
    /\ inflight = EmptyBag
    /\ BagCardinality(OwnerUnbinds) = MaxReq
    /\ \E d, e \in DOMAIN OwnerUnbinds : Succeeded(d) /\ IsNotFound(e.resp)

(***************************************************************************)
(* C17  The order of the errors of PUT                                     *)
(***************************************************************************)

IsMissingParam(resp) == resp.status = 400 /\ resp.errcode = "M_MISSING_PARAM"

IsBadJson(resp) == resp.status = 400 /\ resp.errcode = "M_BAD_JSON"

\* C17: a PUT is answered by the first of these that applies: no
\* :room_alias parameter (M_MISSING_PARAM, whatever the body), a parameter
\* that is no alias (the error of the alias), a body that is no {room_id}
\* (M_BAD_JSON, also when the alias is bound), a room_id that names no room
\* (422), and only then the outcome of the insert (200 or 409); the step that
\* answers a PUT with an error leaves room_aliases as it is.
C17_BindErrorPrecedence ==
    [][\A d \in BagToSet(done') :
          (NewlyAnswered(d) /\ d.req.op = "PUT") =>
              /\ IF d.req.room_alias = <<>> THEN IsMissingParam(d.resp)
                 ELSE IF MalformedAlias(d.req) THEN IsNotFound(d.resp)
                 ELSE IF d.req.body = <<>> THEN IsBadJson(d.resp)
                 ELSE IF ~RoomExists(d.req.body) THEN IsRoomNotFound(d.resp)
                 ELSE IF d.pre # <<>> THEN IsAliasTaken(d.resp)
                 ELSE Succeeded(d)
              /\ ~Succeeded(d) => room_aliases' = room_aliases]_vars

\* A PUT of a bound alias with a body that is no {room_id} was answered
\* M_BAD_JSON, and the row of the alias is the one the PUT found.
C17_Witness ==
    \E d \in Answers :
        /\ d.req.op = "PUT" /\ d.req.body = <<>>
        /\ d.pre # <<>> /\ IsBadJson(d.resp)
        /\ RowsFor(room_aliases, RequestAlias(d.req).ok[1]) = d.pre

(***************************************************************************)
(* C18  What a request leaves alone                                        *)
(***************************************************************************)

\* C18: the step that answers a GET leaves room_aliases as it is; the step
\* that answers a PUT or a DELETE of an alias, with 200 or with an error,
\* leaves the rows of every other alias as they are, and one that names no
\* alias leaves all rows as they are.
C18_Frame ==
    [][\A d \in BagToSet(done') :
          NewlyAnswered(d) =>
              /\ d.req.op = "GET" => room_aliases' = room_aliases
              /\ RequestAlias(d.req).err # <<>> => room_aliases' = room_aliases
              /\ RequestAlias(d.req).err = <<>> =>
                    RowsNotFor(room_aliases', RequestAlias(d.req).ok[1])
                        = RowsNotFor(room_aliases, RequestAlias(d.req).ok[1])]_vars

\* With two aliases bound, the DELETE of one was answered 200 and the row of
\* the other, of the same user, is the only row left.
C18_Witness ==
    \E d \in Answers :
        /\ d.req.op = "DELETE" /\ Succeeded(d)
        /\ Len(room_aliases) = 1
        /\ room_aliases[1].alias # RequestAlias(d.req).ok[1]
        /\ room_aliases[1].user_id = d.req.user[1]

(***************************************************************************)
(* C19  Every request is answered, once                                    *)
(***************************************************************************)

\* The step takes a request that fails before the database and answers it.
AnswersAtOnce ==
    /\ inflight' = inflight
    /\ \E d \in BagToSet(done') :
          FailsEarly(d.req) /\ done' = done (+) SetToBag({d})

\* The step takes a request and leaves it running.
TakesUp ==
    /\ done' = done
    /\ \E req \in Requests :
          ~FailsEarly(req) /\ inflight' = inflight (+) SetToBag({req})

\* The step answers one running request, which stops running.
AnswersRunning ==
    \E d \in BagToSet(done') :
        /\ BagIn(d.req, inflight)
        /\ inflight' = inflight (-) SetToBag({d.req})
        /\ done' = done (+) SetToBag({d})

\* C19: with the handlers scheduled fairly, whatever requests run at once,
\* the requests that run are all answered; each request gets one response, in
\* the step it is taken when it fails before the database and else in its
\* one later step, after which it runs no more; and the step of a running
\* request can always be taken, whatever else is running.
C19_Termination ==
    /\ inflight # EmptyBag ~> inflight = EmptyBag
    /\ [][AnswersAtOnce \/ TakesUp \/ AnswersRunning]_vars
    /\ [](\A req \in BagToSet(inflight) : ENABLED HandlerStep(req))

\* MaxReq requests ran at once, of two methods, and all are answered.
C19_Witness ==
    /\ inflight = EmptyBag
    /\ BagCardinality(done) = MaxReq
    /\ \A d \in Answers : ReachedDatabase(d)
    /\ \E d, e \in Answers : d.req.op = "PUT" /\ e.req.op = "DELETE"

(***************************************************************************)
(* C20  The user of PUT and DELETE                                         *)
(***************************************************************************)

\* C20: the handlers of PUT and DELETE run only on a request to which
\* AccessTokenAuth attached a user: a PUT or DELETE without a valid token is
\* answered by the rejection of AccessTokenAuth and by nothing else, so no
\* request is answered by the panic of `expect`; every row is of a user and
\* every DELETE answered 200 was sent by one; a GET runs, and is answered by
\* its handler, with no user attached, whatever its token.
C20_AuthenticatedOwner ==
    /\ \A req \in BagToSet(inflight) :
          req.op \in {"PUT", "DELETE"} => req.user # <<>>
    /\ \A d \in Answers :
          /\ d.resp # Panic
          /\ d.req.op \in {"PUT", "DELETE"} =>
                (d.req.user = <<>> <=> d.resp = Unauthorized)
          /\ d.req.op = "GET" => (d.req.user = <<>> /\ d.resp # Unauthorized)
          /\ (d.req.op = "DELETE" /\ Succeeded(d)) => d.req.user # <<>>
    /\ \A i \in 1..Len(room_aliases) : room_aliases[i].user_id \in Users

\* A DELETE of a bound alias without a valid token was rejected and the row
\* of the alias is in the table.
C20_Witness ==
    \E d \in Answers :
        /\ d.req.op = "DELETE" /\ d.req.user = <<>>
        /\ d.resp = Unauthorized
        /\ d.pre # <<>>
        /\ RowsFor(room_aliases, RequestAlias(d.req).ok[1]) = d.pre

====
